---- MODULE Spec2Model ----
(***************************************************************************)
(* State-machine model of the job board backend (Django REST framework).   *)
(* The first part covers the application engine: applications/views.py,    *)
(* applications/serializers.py, applications/models.py and the permission  *)
(* classes of authentication/permissions.py (specification Spec).  The     *)
(* second part covers the job posting store: jobs/views.py,                *)
(* jobs/serializers.py, jobs/models.py, jobs/filters.py and the            *)
(* active-jobs cache (specification JobSpec).  The third part covers       *)
(* identity and roles: authentication/views.py,                            *)
(* authentication/serializers.py and authentication/models.py              *)
(* (specification AuthSpec).                                               *)
(*                                                                         *)
(* Requests are served by concurrent workers.  The database runs in        *)
(* autocommit mode (settings.py sets no ATOMIC_REQUESTS), so every ORM     *)
(* read or write of a handler is its own atomic step and the steps of two  *)
(* requests interleave.                                                    *)
(***************************************************************************)
EXTENDS Integers, Sequences, FiniteSets, Bags, TLC

VARIABLES
    users,          \* authentication.User rows: id -> [role], in the identity
                    \* part with email, is_email_verified and password
    jobs,           \* jobs.JobPosting rows: id -> [employer, is_active]
    applications,   \* applications.JobApplication rows
    nextAppId,      \* the AutoField sequence of JobApplication.id
    outbox,         \* bag of tasks handed to Celery with .delay()
    pc,             \* per worker: position inside the handler it runs
    req,            \* per worker: the request being served, as far as it was read
    inst,           \* per worker: the handler's local variables
    last,           \* the exchange the latest step completed, NoLast if none
    nreq,           \* number of requests started so far
    locations,      \* jobs.Location rows
    cache,          \* the entry of the cache key 'active_jobs_queryset'
    nextJobId,      \* number of JobPosting ids drawn so far (uuid4: never reused)
    nextLocId,      \* number of Location ids drawn so far
    profiles,       \* JobSeekerProfile and EmployerProfile rows
    vtokens,        \* authentication.VerificationToken rows
    rtokens,        \* authentication.PasswordResetToken rows
    authSeq         \* numbers of user ids, profile ids and tokens drawn so far

vars == <<users, jobs, applications, nextAppId, outbox, pc, req, inst, last, nreq,
          locations, cache, nextJobId, nextLocId, profiles, vtokens, rtokens,
          authSeq>>

\* The state of the job posting store that no application request touches.
jobStore == <<locations, cache, nextJobId, nextLocId>>

\* The identity tables besides User, which no application or job request
\* touches.
authStore == <<profiles, vtokens, rtokens, authSeq>>

\* The state of the job board that no identity request touches.
boardStore == <<jobs, applications, nextAppId, locations, cache, nextJobId,
                nextLocId>>

(***************************************************************************)
(* Bounds of the model.                                                    *)
(***************************************************************************)
MaxRequests == 2

\* Number of requests to the job posting store in a behaviour of JobSpec.
MaxJobRequests == 2

Workers == {"w1", "w2"}

(***************************************************************************)
(* Values.                                                                 *)
(***************************************************************************)
None == "none"                  \* a field the request does not supply

STATUS_CHOICES == {"submitted", "reviewed", "accepted", "rejected"}

StatusDefault == "submitted"

Actors == {"s1", "s2", "e1", "e2", "a1"}

\* job_id values of a POST: absent, the stored postings, an id that is not stored.
PostJobInputs == {None, "j1", "j2", "j9"}

\* status values of a POST: absent, a choice other than the default, a non-choice.
PostStatusInputs == {None, "accepted", "bogus"}

\* job_id values of a PUT or PATCH: absent, or a stored posting.
UpdateJobInputs == {None, "j2"}

\* status values of a PUT or PATCH: absent, two choices, a non-choice.
UpdateStatusInputs == {None, "accepted", "rejected", "bogus"}

NoRow == [id |-> 0, job |-> None, job_seeker |-> None, status |-> None]

NoInst == [app |-> NoRow, old_status |-> None, prev |-> NoRow]

NoReq == [method |-> None, view |-> None, user |-> None, pk |-> 0,
          job_id |-> None, status |-> None]

NoLast == [req |-> NoReq, code |-> 0, data |-> {}, prev |-> NoRow, sent |-> 0,
           error |-> None]

(***************************************************************************)
(* authentication/permissions.py and rest_framework.permissions            *)
(***************************************************************************)
IsAuthenticated(u) == u \in DOMAIN users

IsAdminUser(u) == IsAuthenticated(u) /\ users[u].role = "admin"

IsEmployer(u) == IsAuthenticated(u) /\ users[u].role = "employer"

\* IsJobSeeker as it would be with its role test dropped.
IsJobSeeker_AnyRole(u) == IsAuthenticated(u)

IsJobSeeker(u) == IsAuthenticated(u) /\ users[u].role = "job_seeker"

(***************************************************************************)
(* applications/models.py: the table and its unique index                  *)
(***************************************************************************)
\* UniqueViolation as it would be for a table without the unique index.
UniqueViolation_NoIndex(a) == FALSE

\* unique_together = ('job', 'job_seeker'): would writing row `a` collide?
UniqueViolation(a) ==
    \E b \in applications : b.id # a.id /\ b.job = a.job /\ b.job_seeker = a.job_seeker

\* The stored row that row `a` collides with on the unique index.
Colliding(a) ==
    CHOOSE b \in applications :
        b.id # a.id /\ b.job = a.job /\ b.job_seeker = a.job_seeker

AppExists(pk) == \E a \in applications : a.id = pk

AppById(pk) == IF AppExists(pk) THEN CHOOSE a \in applications : a.id = pk ELSE NoRow

\* Model.save() of a loaded instance: UPDATE of every column by primary key.
SaveRow(a) == {b \in applications : b.id # a.id} \cup {a}

(***************************************************************************)
(* applications/serializers.py: JobApplicationSerializer                   *)
(* Writable fields: job_id (source job) and status; job_seeker and         *)
(* applied_at are read-only.  job_seeker being read-only, the serializer   *)
(* gets no UniqueTogetherValidator for (job, job_seeker).                  *)
(***************************************************************************)
\* Field-level validation; partial=True lifts "required" from job_id.
Serializer_fields_valid(r, partial) ==
    /\ IF r.job_id = None THEN partial ELSE r.job_id \in DOMAIN jobs
    /\ r.status = None \/ r.status \in STATUS_CHOICES

\* JobApplicationSerializer.validate: TRUE unless it raises ValidationError.
Serializer_validate(r) ==
    ~ (IsAuthenticated(r.user) /\ r.method = "POST" /\ jobs[r.job_id].employer = r.user)

Serializer_is_valid(r, partial) ==
    Serializer_fields_valid(r, partial) /\ Serializer_validate(r)

\* ModelSerializer.update: setattr for each validated field.
Serializer_update(app, r) ==
    [app EXCEPT !.job = IF r.job_id = None THEN @ ELSE r.job_id,
                !.status = IF r.status = None THEN @ ELSE r.status]

\* ModelSerializer.create with serializer.save(job_seeker=request.user).
Serializer_create(r) ==
    [id |-> nextAppId, job |-> r.job_id, job_seeker |-> r.user,
     status |-> IF r.status = None THEN StatusDefault ELSE r.status]

(***************************************************************************)
(* applications/views.py: permissions and querysets                        *)
(***************************************************************************)
\* get_permissions as it would be with POST guarded like GET.
ListCreate_get_permissions_AuthOnly(method, u) == IsAuthenticated(u)

ListCreate_get_permissions(method, u) ==
    IF method = "POST" THEN IsJobSeeker(u) ELSE IsAuthenticated(u)

\* get_queryset as it would be with the employer branch unfiltered.
QuerysetForRole_EmployerAll(role, u) ==
    IF role = "job_seeker"
    THEN {a \in applications : a.job_seeker = u}
    ELSE IF role \in {"employer", "admin"}
    THEN applications
    ELSE {}

\* JobApplicationListCreate.get_queryset for a user of the given role.
QuerysetForRole(role, u) ==
    IF role = "job_seeker"
    THEN {a \in applications : a.job_seeker = u}
    ELSE IF role = "employer"
    THEN {a \in applications : jobs[a.job].employer = u}
    ELSE IF role = "admin"
    THEN applications
    ELSE {}

ListCreate_get_queryset(u) == QuerysetForRole(users[u].role, u)

\* [IsAuthenticated(), IsEmployer() or IsAdminUser()]: `or` of two permission
\* objects is the first one, an object being truthy, so PUT asks for IsEmployer.
Detail_get_permissions(method, u) ==
    IF method = "GET" THEN IsAuthenticated(u)
    ELSE IF method = "PUT" THEN IsAuthenticated(u) /\ IsEmployer(u)
    ELSE IsAuthenticated(u)

\* get_object as it would be without the job seeker's ownership test.
Detail_get_object_NoSeekerTest(u, pk) ==
    IF ~AppExists(pk) THEN 404
    ELSE IF users[u].role = "employer" /\ jobs[AppById(pk).job].employer # u THEN 403
    ELSE 200

\* JobApplicationDetail.get_object: the status it ends with (200: returns obj).
Detail_get_object(u, pk) ==
    IF ~AppExists(pk) THEN 404
    ELSE IF users[u].role = "job_seeker" /\ AppById(pk).job_seeker # u THEN 403
    ELSE IF users[u].role = "employer" /\ jobs[AppById(pk).job].employer # u THEN 403
    ELSE 200

(***************************************************************************)
(* The exception raised by a failing step and the status the framework     *)
(* turns it into.  The views catch neither IntegrityError nor the broker's *)
(* connection error, and DRF's exception handler maps neither: Django      *)
(* answers 500.                                                            *)
(***************************************************************************)
StatusOfError(e) == 500

(***************************************************************************)
(* The Celery tasks of applications/tasks.py, as queued messages.          *)
(***************************************************************************)
Task(name, to, job) == [task |-> name, to |-> to, job |-> job]

Delay(t) == outbox (+) SetToBag({t})

(***************************************************************************)
(* Request bookkeeping.                                                    *)
(***************************************************************************)
\* A request goes to the first worker that is idle.
FirstIdle(w) == pc[w] = "idle" /\ (w = "w2" => pc["w1"] # "idle")

Begin(w) ==
    /\ FirstIdle(w)
    /\ nreq < MaxRequests
    /\ nreq' = nreq + 1

\* The worker answers: the exchange becomes `last`, the worker is idle again.
\* prev is the stored row the request's write replaced or collided with, sent
\* the number of application_accepted tasks the request queued.
Respond(w, r, code, data, prev, sent, error) ==
    /\ last' = [req |-> r, code |-> code, data |-> data, prev |-> prev,
                sent |-> sent, error |-> error]
    /\ pc' = [pc EXCEPT ![w] = "idle"]
    /\ req' = [req EXCEPT ![w] = NoReq]
    /\ inst' = [inst EXCEPT ![w] = NoInst]
    /\ UNCHANGED jobStore

\* The worker moves on inside its handler.
Goto(w, label, r, i) ==
    /\ last' = NoLast
    /\ pc' = [pc EXCEPT ![w] = label]
    /\ req' = [req EXCEPT ![w] = r]
    /\ inst' = [inst EXCEPT ![w] = i]
    /\ UNCHANGED jobStore

(***************************************************************************)
(* Initial state: registered users of every role and two postings, each    *)
(* owned by an employer; no applications yet.                              *)
(***************************************************************************)
Init ==
    /\ users = [u \in Actors |->
                  [role |-> CASE u \in {"s1", "s2"} -> "job_seeker"
                              [] u \in {"e1", "e2"} -> "employer"
                              [] OTHER -> "admin"]]
    /\ jobs = [j \in {"j1", "j2"} |->
                  [employer |-> IF j = "j1" THEN "e1" ELSE "e2", is_active |-> TRUE]]
    /\ applications = {}
    /\ nextAppId = 1
    /\ outbox = EmptyBag
    /\ pc = [w \in Workers |-> "idle"]
    /\ req = [w \in Workers |-> NoReq]
    /\ inst = [w \in Workers |-> NoInst]
    /\ last = NoLast
    /\ nreq = 0
    /\ locations = {}
    /\ cache = [present |-> FALSE, rows |-> {}]
    /\ nextJobId = 2
    /\ nextLocId = 0
    /\ profiles = {}
    /\ vtokens = {}
    /\ rtokens = {}
    /\ authSeq = [user |-> 0, profile |-> 0, vtoken |-> 0, rtoken |-> 0]

(***************************************************************************)
(* GET /api/applications/  (JobApplicationListCreate.get)                  *)
(***************************************************************************)
ListApplications(w) ==
    /\ Begin(w)
    /\ \E u \in Actors :
          LET r == [NoReq EXCEPT !.method = "GET", !.view = "list", !.user = u]
          IN  IF ~ListCreate_get_permissions("GET", u)
              THEN Respond(w, r, 403, {}, NoRow, 0, None)
              ELSE Respond(w, r, 200, ListCreate_get_queryset(u), NoRow, 0, None)
    /\ UNCHANGED <<users, authStore, jobs, applications, nextAppId, outbox>>

(***************************************************************************)
(* POST /api/applications/  (JobApplicationListCreate.post)                *)
(***************************************************************************)
\* check_permissions, get_serializer, is_valid(raise_exception=True).
PostStart(w) ==
    /\ Begin(w)
    /\ \E u \in Actors, j \in PostJobInputs, s \in PostStatusInputs :
          LET r == [NoReq EXCEPT !.method = "POST", !.view = "list", !.user = u,
                                 !.job_id = j, !.status = s]
          IN  IF ~ListCreate_get_permissions("POST", u)
              THEN Respond(w, r, 403, {}, NoRow, 0, None)
              ELSE IF ~Serializer_is_valid(r, FALSE)
              THEN Respond(w, r, 400, {}, NoRow, 0, None)
              ELSE Goto(w, "post_save", r, NoInst)
    /\ UNCHANGED <<users, authStore, jobs, applications, nextAppId, outbox>>

\* perform_create, then send_application_submitted_email.delay(...), then the
\* 201 response.  The INSERT raises IntegrityError on the unique index; .delay
\* raises when the broker cannot be reached.
PostSave(w) ==
    /\ pc[w] = "post_save"
    /\ LET r == req[w]
           a == Serializer_create(r)
       IN  IF UniqueViolation(a)
           THEN /\ Respond(w, r, StatusOfError("IntegrityError"), {}, Colliding(a), 0,
                           "IntegrityError")
                /\ UNCHANGED <<applications, nextAppId, outbox>>
           ELSE /\ applications' = applications \cup {a}
                /\ nextAppId' = nextAppId + 1
                /\ \E broker_up \in BOOLEAN :
                      IF broker_up
                      THEN /\ outbox' = Delay(Task("application_submitted", r.user, a.job))
                           /\ Respond(w, r, 201, {a}, NoRow, 0, None)
                      ELSE /\ UNCHANGED outbox
                           /\ Respond(w, r, StatusOfError("BrokerError"), {}, NoRow, 0,
                                      "BrokerError")
    /\ UNCHANGED <<users, authStore, jobs, nreq>>

(***************************************************************************)
(* GET /api/applications/<pk>/  (JobApplicationDetail.get)                 *)
(***************************************************************************)
GetApplication(w) ==
    /\ Begin(w)
    /\ \E u \in Actors, pk \in 1..nextAppId :
          LET r == [NoReq EXCEPT !.method = "GET", !.view = "detail", !.user = u,
                                 !.pk = pk]
          IN  IF ~Detail_get_permissions("GET", u)
              THEN Respond(w, r, 403, {}, NoRow, 0, None)
              ELSE IF Detail_get_object(u, pk) # 200
              THEN Respond(w, r, Detail_get_object(u, pk), {}, NoRow, 0, None)
              ELSE Respond(w, r, 200, {AppById(pk)}, NoRow, 0, None)
    /\ UNCHANGED <<users, authStore, jobs, applications, nextAppId, outbox>>

(***************************************************************************)
(* PUT and PATCH /api/applications/<pk>/                                   *)
(***************************************************************************)
\* check_permissions, get_object, get_serializer(instance, partial=True),
\* is_valid; PATCH also reads old_status from the loaded instance.  The pk
\* comes with the URL; the body is read by the serializer.
UpdateStart(w, m) ==
    /\ Begin(w)
    /\ \E u \in Actors, pk \in 1..nextAppId :
          LET r0 == [NoReq EXCEPT !.method = m, !.view = "detail", !.user = u,
                                  !.pk = pk]
              got == Detail_get_object(u, pk)
              obj == AppById(pk)
          IN  IF ~Detail_get_permissions(m, u)
              THEN Respond(w, r0, 403, {}, NoRow, 0, None)
              ELSE IF got # 200
              THEN Respond(w, r0, got, {}, NoRow, 0, None)
              ELSE \E j \in UpdateJobInputs, s \in UpdateStatusInputs :
                      LET r == [r0 EXCEPT !.job_id = j, !.status = s]
                      IN  IF ~Serializer_is_valid(r, TRUE)
                          THEN Respond(w, r, 400, {}, NoRow, 0, None)
                          ELSE Goto(w, IF m = "PUT" THEN "put_save" ELSE "patch_save",
                                    r, [app |-> obj, old_status |-> obj.status,
                                        prev |-> NoRow])
    /\ UNCHANGED <<users, authStore, jobs, applications, nextAppId, outbox>>

PutStart(w) == UpdateStart(w, "PUT")

PatchStart(w) == UpdateStart(w, "PATCH")

\* JobApplicationDetail.put: perform_update, then the 200 response.
PutSave(w) ==
    /\ pc[w] = "put_save"
    /\ LET r == req[w]
           a == Serializer_update(inst[w].app, r)
       IN  IF UniqueViolation(a)
           THEN /\ Respond(w, r, StatusOfError("IntegrityError"), {}, NoRow, 0,
                           "IntegrityError")
                /\ UNCHANGED applications
           ELSE /\ applications' = SaveRow(a)
                /\ Respond(w, r, 200, {a}, AppById(a.id), 0, None)
    /\ UNCHANGED <<users, authStore, jobs, nextAppId, outbox, nreq>>

\* JobApplicationDetail.patch, the first perform_update.
PatchSave(w) ==
    /\ pc[w] = "patch_save"
    /\ LET r == req[w]
           a == Serializer_update(inst[w].app, r)
       IN  IF UniqueViolation(a)
           THEN /\ Respond(w, r, StatusOfError("IntegrityError"), {}, NoRow, 0,
                           "IntegrityError")
                /\ UNCHANGED applications
           ELSE /\ applications' = SaveRow(a)
                /\ Goto(w, "patch_notify", r,
                        [inst[w] EXCEPT !.app = a, !.prev = AppById(a.id)])
    /\ UNCHANGED <<users, authStore, jobs, nextAppId, outbox, nreq>>

\* The table as it would be if the request ran in a transaction that a
\* raising .delay rolls back.
AfterFailedDispatch_Rollback(w) == SaveRow(inst[w].prev)

\* What is left of the database write when .delay raises: the write was
\* committed by autocommit, nothing is rolled back.
AfterFailedDispatch(w) == applications

\* JobApplicationDetail.patch after the first save: the edge test, .delay,
\* the second perform_update, the 200 response.
PatchNotify(w) ==
    /\ pc[w] = "patch_notify"
    /\ LET r == req[w]
           a == inst[w].app
           edge == inst[w].old_status # "accepted" /\ a.status = "accepted"
       IN  \E broker_up \in BOOLEAN :
              IF edge /\ ~broker_up
              THEN /\ applications' = AfterFailedDispatch(w)
                   /\ UNCHANGED outbox
                   /\ Respond(w, r, StatusOfError("BrokerError"), {}, inst[w].prev, 0,
                              "BrokerError")
              ELSE /\ (edge \/ broker_up)
                   /\ outbox' = IF edge
                                THEN Delay(Task("application_accepted", a.job_seeker, a.job))
                                ELSE outbox
                   /\ IF UniqueViolation(a)
                      THEN /\ UNCHANGED applications
                           /\ Respond(w, r, StatusOfError("IntegrityError"), {},
                                      inst[w].prev, IF edge THEN 1 ELSE 0, "IntegrityError")
                      ELSE /\ applications' = SaveRow(a)
                           /\ Respond(w, r, 200, {a}, inst[w].prev,
                                      IF edge THEN 1 ELSE 0, None)
    /\ UNCHANGED <<users, authStore, jobs, nextAppId, nreq>>

Next ==
    \/ \E w \in Workers : ListApplications(w)
    \/ \E w \in Workers : PostStart(w)
    \/ \E w \in Workers : PostSave(w)
    \/ \E w \in Workers : GetApplication(w)
    \/ \E w \in Workers : PutStart(w)
    \/ \E w \in Workers : PutSave(w)
    \/ \E w \in Workers : PatchStart(w)
    \/ \E w \in Workers : PatchSave(w)
    \/ \E w \in Workers : PatchNotify(w)

Spec == Init /\ [][Next]_vars

(***************************************************************************)
(* Properties.                                                             *)
(***************************************************************************)
RoleOf(u) == users[u].role

LastIs(method, view) == last.req.method = method /\ last.req.view = view

LastUpdate == last.req.view = "detail" /\ last.req.method \in {"PUT", "PATCH"}

\* C1: at most one JobApplication exists for every (job, job_seeker) pair,
\* under every interleaving of submissions.
C1_UniquePair ==
    \A a, b \in applications :
        (a.job = b.job /\ a.job_seeker = b.job_seeker) => a.id = b.id

\* A worker has validated its POST and not yet inserted, while the row for
\* the same (job, job_seeker) pair has been inserted by the other worker.
C1_Witness ==
    \E w \in Workers :
        /\ pc[w] = "post_save"
        /\ \E a \in applications :
              a.job = req[w].job_id /\ a.job_seeker = req[w].user

\* C2: a submission by a job seeker who already has an application for the
\* job fails with Conflict (409), stores nothing, queues nothing.
C2_DuplicateIsConflict ==
    (LastIs("POST", "list") /\ last.prev # NoRow) =>
        /\ last.code = 409
        /\ last.data = {}

\* C3: an update of an application succeeds if and only if the actor is an
\* admin or the employer owning the application's job; everybody else gets
\* Forbidden.
C3_OnlyOwnerOrAdminUpdates ==
    /\ (LastUpdate /\ last.code = 200) =>
          \/ RoleOf(last.req.user) = "admin"
          \/ /\ RoleOf(last.req.user) = "employer"
             /\ jobs[last.prev.job].employer = last.req.user
    /\ (LastUpdate /\ AppExists(last.req.pk) /\ RoleOf(last.req.user) = "admin") =>
          last.code # 403

\* C4: a successful update queues exactly one application_accepted task
\* when it takes the stored status from non-accepted to accepted, and none
\* otherwise, through PUT as through PATCH.
C4_EdgeTriggered ==
    (LastUpdate /\ last.code = 200) =>
        \A a \in last.data :
            last.sent = IF last.prev.status # "accepted" /\ a.status = "accepted"
                        THEN 1 ELSE 0

\* C5: the application_accepted task is queued only by a PATCH that has
\* already written the new status, and the step in which .delay fails
\* leaves the table as it is: the row keeps the status the PATCH wrote.
C5_WriteBeforeDispatch ==
    [][\A w \in Workers :
          /\ (pc[w] = "patch_save" /\ pc'[w] = "patch_notify") =>
                (inst'[w].app \in applications' /\ outbox' = outbox)
          /\ (pc[w] = "patch_notify" /\ outbox' # outbox) =>
                inst[w].prev # NoRow
          /\ (pc[w] = "patch_notify" /\ last'.error = "BrokerError"
                /\ pc'[w] = "idle") =>
                /\ applications' = applications
                /\ (inst[w].app \in applications => inst[w].app \in applications')
    ]_vars

\* A PATCH to accepted has failed in .delay and the row is accepted.
C5_Witness ==
    /\ LastIs("PATCH", "detail")
    /\ last.error = "BrokerError"
    /\ last.prev.status # "accepted"
    /\ AppById(last.req.pk).status = "accepted"

\* C6: every application a successful submission creates has status
\* submitted, whatever the request supplied.
C6_CreatedAsSubmitted ==
    (LastIs("POST", "list") /\ last.code = 201) =>
        \A a \in last.data : a.status = "submitted"

\* C7: a submission by an employer or an admin fails with Forbidden and
\* creates and queues nothing; every stored application's job_seeker, and
\* every addressee of a queued task, has role job_seeker.
C7_OnlyJobSeekersApply ==
    /\ (LastIs("POST", "list") /\ RoleOf(last.req.user) # "job_seeker") =>
          (last.code = 403 /\ last.data = {})
    /\ \A a \in applications : RoleOf(a.job_seeker) = "job_seeker"
    /\ \A t \in BagToSet(outbox) : RoleOf(t.to) = "job_seeker"

\* An employer's submission for another employer's posting was refused.
C7_Witness ==
    /\ LastIs("POST", "list")
    /\ RoleOf(last.req.user) = "employer"
    /\ last.req.job_id \in DOMAIN jobs
    /\ jobs[last.req.job_id].employer # last.req.user
    /\ last.code = 403

LastPostByJobOwner ==
    /\ LastIs("POST", "list")
    /\ last.req.job_id \in DOMAIN jobs
    /\ jobs[last.req.job_id].employer = last.req.user

NoSelfApplication ==
    \A a \in applications : jobs[a.job].employer # a.job_seeker

\* C8 as stated: no application's job_seeker is the employer of its job, and
\* a submission by the job's employer fails with ValidationError (400).
C8_OwnerGetsValidationError ==
    /\ NoSelfApplication
    /\ LastPostByJobOwner => (last.code = 400 /\ last.data = {})

\* C8 as amended: no application's job_seeker is the employer of its job, and
\* a submission by the job's employer fails with Forbidden (403), the role
\* test preceding validation, and creates nothing.
C8_OwnerIsForbidden ==
    /\ NoSelfApplication
    /\ LastPostByJobOwner => (last.code = 403 /\ last.data = {})

\* The employer of a posting has tried to apply to it.
C8_Witness == LastPostByJobOwner /\ last.code = 403

\* C9: reading one application returns it if and only if the actor is its
\* job seeker, the employer of its job, or an admin; every other actor gets
\* Forbidden (not NotFound) and no data.
C9_ViewApplication ==
    (LastIs("GET", "detail") /\ AppExists(last.req.pk)) =>
        LET a == AppById(last.req.pk)
            u == last.req.user
        IN  IF \/ u = a.job_seeker
               \/ u = jobs[a.job].employer
               \/ RoleOf(u) = "admin"
            THEN last.code = 200 /\ last.data = {a}
            ELSE last.code = 403 /\ last.data = {}

\* A job seeker has asked for another job seeker's application.
C9_Witness ==
    /\ LastIs("GET", "detail")
    /\ AppExists(last.req.pk)
    /\ RoleOf(last.req.user) = "job_seeker"
    /\ AppById(last.req.pk).job_seeker # last.req.user
    /\ last.code = 403

\* C10: listing returns, without failing, exactly the actor's own
\* applications to a job seeker, the applications to the actor's postings to
\* an employer, all applications to an admin, and nothing to a user of any
\* other role (the model field's default role "user").
C10_ListApplications ==
    LastIs("GET", "list") =>
        /\ last.code = 200
        /\ \A a \in applications :
              a \in last.data <=>
                 \/ RoleOf(last.req.user) = "job_seeker" /\ a.job_seeker = last.req.user
                 \/ RoleOf(last.req.user) = "employer"
                       /\ jobs[a.job].employer = last.req.user
                 \/ RoleOf(last.req.user) = "admin"
        /\ last.data \subseteq applications
        /\ \A u \in Actors : QuerysetForRole("user", u) = {}

\* An employer has listed while an application to another employer's posting
\* is stored, and has not been shown it.
C10_Witness ==
    /\ LastIs("GET", "list")
    /\ RoleOf(last.req.user) = "employer"
    /\ applications # {}
    /\ last.data = {}

\* C29: a successful update of an application (PUT or PATCH) changes only its
\* status: its job and its job_seeker are after the update what they were
\* before it, whatever the request supplied.
C29_UpdateChangesOnlyStatus ==
    (LastUpdate /\ last.code = 200) =>
        \A a \in last.data :
            a.job = last.prev.job /\ a.job_seeker = last.prev.job_seeker

(***************************************************************************)
(***************************************************************************)
(* The job posting store: jobs/views.py, jobs/serializers.py,              *)
(* jobs/models.py, jobs/filters.py.                                        *)
(*                                                                         *)
(* A request body always carries valid values of the scalar fields title,  *)
(* description, category, job_type and salary; what the model varies is    *)
(* is_active and the three flat location fields.  With the scalar fields   *)
(* present PUT and PATCH validate alike, so one update operation stands    *)
(* for both.                                                               *)
(***************************************************************************)
(***************************************************************************)
JobActors == {"s1", "e1", "e2", "a1"}

\* uuid4 primary keys, in the order they are drawn.
JobIdSeq == <<"j1", "j2", "j3", "j4", "j5", "j6", "j7", "j8">>

LocIdSeq == <<"l1", "l2", "l3", "l4", "l5", "l6", "l7", "l8">>

\* The id a URL names: a stored posting or an id that was never stored.
UrlJobIds == (DOMAIN jobs) \cup {"j9"}

\* is_active as sent in a body: absent, or a text BooleanField parses.
ActiveInputs == {None, "true", "false"}

\* BooleanField.to_internal_value
ParseBool(v) == v = "true"

LocRec(country, city, address) ==
    [country |-> country, city |-> city, address |-> address]

NoLoc == LocRec(None, None, None)

\* The flat location fields of a body: every subset of the three supplied.
\* The full triple is not stored initially, so that its first use inserts a
\* Location and its later uses find it.
LocationInputs ==
    {LocRec(c, t, a) : c \in {None, "US"}, t \in {None, "SF"}, a \in {None, "A2"}}

LocFields(l) == {l.country, l.city, l.address}

\* all(k in data for k in [...]): the three flat fields are supplied.
AllLocFields(l) == None \notin LocFields(l)

\* any(k in data for k in [...]): one of the flat fields is supplied.
AnyLocField(l) == LocFields(l) # {None}

NoJob == [id |-> None, employer |-> None, is_active |-> FALSE, location |-> None]

\* A stored JobPosting as an instance: the row together with its primary key.
JobObj(id) ==
    [id |-> id, employer |-> jobs[id].employer, is_active |-> jobs[id].is_active,
     location |-> jobs[id].location]

NoJobReq == [op |-> None, user |-> None, id |-> None, is_active |-> None,
             loc |-> NoLoc]

NoJobInst == [obj |-> NoJob, loc |-> None, rows |-> {}, hit |-> FALSE]

NoJobLast == [req |-> NoJobReq, code |-> 0, data |-> {}, obj |-> NoJob,
              hit |-> FALSE]

NoCache == [present |-> FALSE, rows |-> {}]

(***************************************************************************)
(* authentication/permissions.py: IsJobOwner                               *)
(***************************************************************************)
IsJobOwner(u, obj) == u = obj.employer

(***************************************************************************)
(* jobs/views.py: permissions                                              *)
(***************************************************************************)
\* JobPostingListCreateView.get_permissions as it would be with POST guarded
\* like GET.
JobListCreate_get_permissions_AuthOnly(method, u) == IsAuthenticated(u)

\* JobPostingListCreateView.get_permissions, as check_permissions applies it.
JobListCreate_get_permissions(method, u) ==
    IF method = "POST" THEN IsAuthenticated(u) /\ IsEmployer(u) ELSE IsAuthenticated(u)

\* JobPostingDetailView.get_permissions, the has_permission side: IsJobOwner
\* defines no has_permission and passes.
JobDetail_has_permission(method, u) ==
    IF method \in {"PUT", "PATCH", "DELETE"}
    THEN IsAuthenticated(u) /\ IsEmployer(u)
    ELSE IsAuthenticated(u)

\* The has_object_permission side as it would be with GET open to every
\* role, the employer branch of get_permissions missing.
JobDetail_has_object_permission_GetOpen(method, u, obj) ==
    IF method \in {"PUT", "PATCH", "DELETE"} THEN IsJobOwner(u, obj) ELSE TRUE

\* The has_object_permission side as it would be with the ownership test
\* dropped from PUT, PATCH and DELETE.
JobDetail_has_object_permission_NoOwnerTest(method, u, obj) ==
    IF method \in {"PUT", "PATCH", "DELETE"} THEN TRUE
    ELSE IF users[u].role = "employer" THEN IsJobOwner(u, obj)
    ELSE TRUE

\* JobPostingDetailView.get_permissions, the has_object_permission side:
\* IsAuthenticated and IsEmployer define no has_object_permission and pass.
JobDetail_has_object_permission(method, u, obj) ==
    IF method \in {"PUT", "PATCH", "DELETE"} THEN IsJobOwner(u, obj)
    ELSE IF users[u].role = "employer" THEN IsJobOwner(u, obj)
    ELSE TRUE

\* JobPostingDetailView.get_object: get_object_or_404 on the whole table (the
\* view's get_queryset is not used), then check_object_permissions.
JobDetail_get_object(method, u, id) ==
    IF id \notin DOMAIN jobs THEN 404
    ELSE IF ~JobDetail_has_object_permission(method, u, JobObj(id)) THEN 403
    ELSE 200

(***************************************************************************)
(* jobs/serializers.py: JobPostingSerializer                               *)
(***************************************************************************)
\* validate as it would be with the update branch testing nothing.
JobSerializer_validate_UpdateUnchecked(l, creating) ==
    IF creating THEN AllLocFields(l) ELSE TRUE

\* JobPostingSerializer.validate: TRUE unless it raises ValidationError.
JobSerializer_validate(l, creating) ==
    IF creating
    THEN AllLocFields(l)
    ELSE AnyLocField(l) => AllLocFields(l)

\* The stored Location with the triple, if there is one.
LocationOf(l) ==
    {x \in locations :
        x.country = l.country /\ x.city = l.city /\ x.address = l.address}

\* get_or_create as it would act on a table without the unique index, two
\* calls having both missed the triple: the row is inserted regardless.
GetOrCreate_table_NoIndex(l) ==
    locations \cup {[id |-> LocIdSeq[nextLocId + 1], country |-> l.country,
                     city |-> l.city, address |-> l.address]}

\* Location.objects.get_or_create(country, city, address): the table after
\* it.  An INSERT that loses to a concurrent one hits the unique index and
\* get_or_create answers with the stored row, so the call acts atomically.
GetOrCreate_table(l) ==
    IF LocationOf(l) # {} THEN locations
    ELSE locations \cup {[id |-> LocIdSeq[nextLocId + 1], country |-> l.country,
                          city |-> l.city, address |-> l.address]}

\* The id of the Location get_or_create returns.
GetOrCreate_id(l) ==
    IF LocationOf(l) # {} THEN (CHOOSE x \in LocationOf(l) : TRUE).id
    ELSE LocIdSeq[nextLocId + 1]

\* is_active is a writable field of the serializer; the model field's default
\* applies when the body has none.
IsActiveDefault == TRUE

\* JobPostingSerializer.create: the row that is inserted.
JobSerializer_create_row(r, loc) ==
    [employer |-> r.user,
     is_active |-> IF r.is_active = None THEN IsActiveDefault ELSE ParseBool(r.is_active),
     location |-> loc]

\* JobPostingSerializer.update: instance.location when all three fields came,
\* setattr for the other validated fields; employer is read-only.
JobSerializer_update_obj(obj, r, loc) ==
    [obj EXCEPT !.is_active = IF r.is_active = None THEN @ ELSE ParseBool(r.is_active),
                !.location = IF AllLocFields(r.loc) THEN loc ELSE @]

\* Model.save() of a loaded instance: UPDATE by primary key, INSERT when the
\* UPDATE matches no row.
SaveJob(obj) ==
    [j \in (DOMAIN jobs) \cup {obj.id} |->
        IF j = obj.id
        THEN [employer |-> obj.employer, is_active |-> obj.is_active,
              location |-> obj.location]
        ELSE jobs[j]]

\* Model.delete(): the row goes, and by on_delete=CASCADE of
\* JobApplication.job its applications with it.
DeleteJob_jobs(id) == [j \in (DOMAIN jobs) \ {id} |-> jobs[j]]

\* The applications as they would be left by a foreign key that does not
\* cascade.
DeleteJob_applications_NoCascade(id) == applications

DeleteJob_applications(id) == {a \in applications : a.job # id}

(***************************************************************************)
(* jobs/views.py: querysets, the cache, the filter backend                 *)
(***************************************************************************)
\* The employer branch of get_queryset as it would be with the active filter
\* of the other branch.
JobList_EmployerQueryset_ActiveOnly(u) ==
    {JobObj(j) : j \in {k \in DOMAIN jobs : jobs[k].employer = u /\ jobs[k].is_active}}

\* base_queryset.filter(employer=user)
JobList_EmployerQueryset(u) ==
    {JobObj(j) : j \in {k \in DOMAIN jobs : jobs[k].employer = u}}

\* base_queryset.filter(is_active=True), evaluated on the table.
JobList_ActiveQueryset ==
    {JobObj(j) : j \in {k \in DOMAIN jobs : jobs[k].is_active}}

\* The filter backend as it would be if it paged the queryset it is handed,
\* results included.
FilterBackend_qs_KeepResults(cached_queryset) == cached_queryset

\* DjangoFilterBackend.filter_queryset with JobPostingFilter and no query
\* parameters, applied to what get_queryset returned in the non-employer
\* branch.  cache.set pickles the queryset, which evaluates it, and cache.get
\* returns it with these results; FilterSet.qs starts from queryset.all(), a
\* clone that keeps the query (is_active=True) and drops the results, so the
\* page that is answered is read from the table.
FilterBackend_qs(cached_queryset) == JobList_ActiveQueryset

(***************************************************************************)
(* Request bookkeeping of the job posting store.                           *)
(***************************************************************************)
JobBegin(w) ==
    /\ FirstIdle(w)
    /\ nreq < MaxJobRequests
    /\ nreq' = nreq + 1

\* The worker answers.  obj is the instance get_object loaded, hit tells that
\* cache.get returned a value.
JobRespond(w, r, code, data, obj, hit) ==
    /\ last' = [req |-> r, code |-> code, data |-> data, obj |-> obj, hit |-> hit]
    /\ pc' = [pc EXCEPT ![w] = "idle"]
    /\ req' = [req EXCEPT ![w] = NoJobReq]
    /\ inst' = [inst EXCEPT ![w] = NoJobInst]

JobGoto(w, label, r, i) ==
    /\ last' = NoJobLast
    /\ pc' = [pc EXCEPT ![w] = label]
    /\ req' = [req EXCEPT ![w] = r]
    /\ inst' = [inst EXCEPT ![w] = i]

(***************************************************************************)
(* Initial state of the job posting store: the registered users, an active *)
(* posting of e1 and an inactive posting of e2, each with one application, *)
(* one location, an empty cache.                                           *)
(***************************************************************************)
JobInit ==
    /\ users = [u \in Actors |->
                  [role |-> CASE u \in {"s1", "s2"} -> "job_seeker"
                              [] u \in {"e1", "e2"} -> "employer"
                              [] OTHER -> "admin"]]
    /\ locations = {[id |-> "l1", country |-> "US", city |-> "SF", address |-> "A1"]}
    /\ nextLocId = 1
    /\ jobs = [j \in {"j1", "j2"} |->
                  IF j = "j1"
                  THEN [employer |-> "e1", is_active |-> TRUE, location |-> "l1"]
                  ELSE [employer |-> "e2", is_active |-> FALSE, location |-> "l1"]]
    /\ nextJobId = 2
    /\ applications = {[id |-> 1, job |-> "j1", job_seeker |-> "s1",
                        status |-> StatusDefault],
                       [id |-> 2, job |-> "j2", job_seeker |-> "s1",
                        status |-> StatusDefault]}
    /\ nextAppId = 3
    /\ outbox = EmptyBag
    /\ cache = NoCache
    /\ pc = [w \in Workers |-> "idle"]
    /\ req = [w \in Workers |-> NoJobReq]
    /\ inst = [w \in Workers |-> NoJobInst]
    /\ last = NoJobLast
    /\ nreq = 0
    /\ profiles = {}
    /\ vtokens = {}
    /\ rtokens = {}
    /\ authSeq = [user |-> 0, profile |-> 0, vtoken |-> 0, rtoken |-> 0]

(***************************************************************************)
(* GET /api/jobs/  (JobPostingListCreateView.get -> list)                  *)
(***************************************************************************)
\* check_permissions and get_queryset up to cache.get; the employer branch
\* is answered from the table at once.
ListJobs(w) ==
    /\ JobBegin(w)
    /\ \E u \in JobActors :
          LET r == [NoJobReq EXCEPT !.op = "list", !.user = u]
          IN  IF ~JobListCreate_get_permissions("GET", u)
              THEN JobRespond(w, r, 403, {}, NoJob, FALSE)
              ELSE IF users[u].role = "employer"
              THEN JobRespond(w, r, 200, JobList_EmployerQueryset(u), NoJob, FALSE)
              ELSE IF cache.present
              THEN JobGoto(w, "jlist_page", r,
                           [NoJobInst EXCEPT !.rows = cache.rows, !.hit = TRUE])
              ELSE JobGoto(w, "jlist_eval", r, NoJobInst)
    /\ UNCHANGED <<users, authStore, jobs, applications, nextAppId, outbox, jobStore>>

\* Cache miss: the queryset is evaluated (by pickling it for cache.set).
ListJobsEval(w) ==
    /\ pc[w] = "jlist_eval"
    /\ JobGoto(w, "jlist_set", req[w], [inst[w] EXCEPT !.rows = JobList_ActiveQueryset])
    /\ UNCHANGED <<users, authStore, jobs, applications, nextAppId, outbox, jobStore, nreq>>

\* cache.set(cache_key, cached_queryset, 15 * 60)
ListJobsSet(w) ==
    /\ pc[w] = "jlist_set"
    /\ cache' = [present |-> TRUE, rows |-> inst[w].rows]
    /\ JobGoto(w, "jlist_page", req[w], inst[w])
    /\ UNCHANGED <<users, authStore, jobs, applications, nextAppId, outbox, locations,
                   nextJobId, nextLocId, nreq>>

\* filter_queryset, paginate_queryset, the 200 response.
ListJobsPage(w) ==
    /\ pc[w] = "jlist_page"
    /\ JobRespond(w, req[w], 200, FilterBackend_qs(inst[w].rows), NoJob, inst[w].hit)
    /\ UNCHANGED <<users, authStore, jobs, applications, nextAppId, outbox, jobStore, nreq>>

\* The entry's time to live (15 * 60 seconds) runs out.
CacheExpire ==
    /\ cache.present
    /\ cache' = NoCache
    /\ last' = NoJobLast
    /\ UNCHANGED <<users, authStore, jobs, applications, nextAppId, outbox, locations,
                   nextJobId, nextLocId, pc, req, inst, nreq>>

(***************************************************************************)
(* POST /api/jobs/  (JobPostingListCreateView.post -> create)              *)
(***************************************************************************)
\* is_active values of a POST body.
CreateActiveInputs == {None, "false"}

\* check_permissions, is_valid(raise_exception=True), then
\* JobPostingSerializer.create up to Location.objects.get_or_create.
CreateJobStart(w) ==
    /\ JobBegin(w)
    /\ \E u \in JobActors :
          LET r0 == [NoJobReq EXCEPT !.op = "create", !.user = u]
          IN  IF ~JobListCreate_get_permissions("POST", u)
              THEN /\ JobRespond(w, r0, 403, {}, NoJob, FALSE)
                   /\ UNCHANGED <<locations, nextLocId>>
              ELSE \E a \in CreateActiveInputs, l \in LocationInputs :
                      LET r == [r0 EXCEPT !.is_active = a, !.loc = l]
                      IN  IF ~JobSerializer_validate(l, TRUE)
                          THEN /\ JobRespond(w, r, 400, {}, NoJob, FALSE)
                               /\ UNCHANGED <<locations, nextLocId>>
                          ELSE /\ locations' = GetOrCreate_table(l)
                               /\ nextLocId' = nextLocId + Cardinality(locations' \ locations)
                               /\ JobGoto(w, "jcreate_insert", r,
                                          [NoJobInst EXCEPT !.loc = GetOrCreate_id(l)])
    /\ UNCHANGED <<users, authStore, jobs, applications, nextAppId, outbox, cache, nextJobId>>

\* super().create(validated_data): the INSERT of the posting.
CreateJobInsert(w) ==
    /\ pc[w] = "jcreate_insert"
    /\ LET id == JobIdSeq[nextJobId + 1]
           row == JobSerializer_create_row(req[w], inst[w].loc)
       IN  /\ jobs' = (id :> row) @@ jobs
           /\ nextJobId' = nextJobId + 1
           /\ JobGoto(w, "jcreate_inval", req[w],
                      [inst[w] EXCEPT !.obj = [id |-> id, employer |-> row.employer,
                                               is_active |-> row.is_active,
                                               location |-> row.location]])
    /\ UNCHANGED <<users, authStore, applications, nextAppId, outbox, locations, cache,
                   nextLocId, nreq>>

\* perform_create after serializer.save: cache.delete('active_jobs_queryset'),
\* then the 201 response.
CreateJobInvalidate(w) ==
    /\ pc[w] = "jcreate_inval"
    /\ cache' = NoCache
    /\ JobRespond(w, req[w], 201, {inst[w].obj}, NoJob, FALSE)
    /\ UNCHANGED <<users, authStore, jobs, applications, nextAppId, outbox, locations,
                   nextJobId, nextLocId, nreq>>

(***************************************************************************)
(* GET /api/jobs/<id>/  (JobPostingDetailView.get -> retrieve)             *)
(***************************************************************************)
GetJob(w) ==
    /\ JobBegin(w)
    /\ \E u \in JobActors, id \in UrlJobIds :
          LET r == [NoJobReq EXCEPT !.op = "get", !.user = u, !.id = id]
              got == JobDetail_get_object("GET", u, id)
          IN  IF ~JobDetail_has_permission("GET", u)
              THEN JobRespond(w, r, 403, {}, NoJob, FALSE)
              ELSE IF got # 200
              THEN JobRespond(w, r, got, {}, NoJob, FALSE)
              ELSE JobRespond(w, r, 200, {JobObj(id)}, JobObj(id), FALSE)
    /\ UNCHANGED <<users, authStore, jobs, applications, nextAppId, outbox, jobStore>>

(***************************************************************************)
(* PUT and PATCH /api/jobs/<id>/  (JobPostingDetailView -> update)         *)
(***************************************************************************)
\* check_permissions, get_object, is_valid(raise_exception=True).
UpdateJobStart(w) ==
    /\ JobBegin(w)
    /\ \E u \in JobActors, id \in UrlJobIds :
          LET r0 == [NoJobReq EXCEPT !.op = "update", !.user = u, !.id = id]
              got == JobDetail_get_object("PATCH", u, id)
          IN  IF ~JobDetail_has_permission("PATCH", u)
              THEN JobRespond(w, r0, 403, {}, NoJob, FALSE)
              ELSE IF got # 200
              THEN JobRespond(w, r0, got, {}, NoJob, FALSE)
              ELSE \E a \in ActiveInputs, l \in LocationInputs :
                      LET r == [r0 EXCEPT !.is_active = a, !.loc = l]
                      IN  IF ~JobSerializer_validate(l, FALSE)
                          THEN JobRespond(w, r, 400, {}, JobObj(id), FALSE)
                          ELSE JobGoto(w, IF AllLocFields(l) THEN "jupdate_loc"
                                          ELSE "jupdate_save",
                                       r, [NoJobInst EXCEPT !.obj = JobObj(id)])
    /\ UNCHANGED <<users, authStore, jobs, applications, nextAppId, outbox, jobStore>>

\* JobPostingSerializer.update, all three location fields supplied:
\* Location.objects.get_or_create.
UpdateJobLocation(w) ==
    /\ pc[w] = "jupdate_loc"
    /\ locations' = GetOrCreate_table(req[w].loc)
    /\ nextLocId' = nextLocId + Cardinality(locations' \ locations)
    /\ JobGoto(w, "jupdate_save", req[w],
               [inst[w] EXCEPT !.loc = GetOrCreate_id(req[w].loc)])
    /\ UNCHANGED <<users, authStore, jobs, applications, nextAppId, outbox, cache, nextJobId, nreq>>

\* super().update(instance, validated_data) with its instance.save(), then
\* the 200 response.  The view overrides no perform_update: the cache is
\* left as it is.
UpdateJobSave(w) ==
    /\ pc[w] = "jupdate_save"
    /\ LET obj == JobSerializer_update_obj(inst[w].obj, req[w], inst[w].loc)
       IN  /\ jobs' = SaveJob(obj)
           /\ JobRespond(w, req[w], 200, {obj}, inst[w].obj, FALSE)
    /\ UNCHANGED <<users, authStore, applications, nextAppId, outbox, jobStore, nreq>>

(***************************************************************************)
(* DELETE /api/jobs/<id>/  (JobPostingDetailView.delete -> destroy)        *)
(***************************************************************************)
\* check_permissions, get_object.
DeleteJobStart(w) ==
    /\ JobBegin(w)
    /\ \E u \in JobActors, id \in UrlJobIds :
          LET r == [NoJobReq EXCEPT !.op = "delete", !.user = u, !.id = id]
              got == JobDetail_get_object("DELETE", u, id)
          IN  IF ~JobDetail_has_permission("DELETE", u)
              THEN JobRespond(w, r, 403, {}, NoJob, FALSE)
              ELSE IF got # 200
              THEN JobRespond(w, r, got, {}, NoJob, FALSE)
              ELSE JobGoto(w, "jdelete_run", r, [NoJobInst EXCEPT !.obj = JobObj(id)])
    /\ UNCHANGED <<users, authStore, jobs, applications, nextAppId, outbox, jobStore>>

\* perform_destroy: instance.delete(), then the 204 response.  The view
\* overrides no perform_destroy: the cache is left as it is.
DeleteJobRun(w) ==
    /\ pc[w] = "jdelete_run"
    /\ jobs' = DeleteJob_jobs(req[w].id)
    /\ applications' = DeleteJob_applications(req[w].id)
    /\ JobRespond(w, req[w], 204, {}, inst[w].obj, FALSE)
    /\ UNCHANGED <<users, authStore, nextAppId, outbox, jobStore, nreq>>

JobNext ==
    \/ \E w \in Workers : ListJobs(w)
    \/ \E w \in Workers : ListJobsEval(w)
    \/ \E w \in Workers : ListJobsSet(w)
    \/ \E w \in Workers : ListJobsPage(w)
    \/ CacheExpire
    \/ \E w \in Workers : CreateJobStart(w)
    \/ \E w \in Workers : CreateJobInsert(w)
    \/ \E w \in Workers : CreateJobInvalidate(w)
    \/ \E w \in Workers : GetJob(w)
    \/ \E w \in Workers : UpdateJobStart(w)
    \/ \E w \in Workers : UpdateJobLocation(w)
    \/ \E w \in Workers : UpdateJobSave(w)
    \/ \E w \in Workers : DeleteJobStart(w)
    \/ \E w \in Workers : DeleteJobRun(w)

JobSpec == JobInit /\ [][JobNext]_vars

(***************************************************************************)
(* Properties of the job posting store.                                    *)
(***************************************************************************)
JobExists(id) == id \in DOMAIN jobs

LastOp(op) == last.req.op = op

LastMutate == last.req.op \in {"update", "delete"}

\* C11: creating a posting succeeds if and only if the actor's role is
\* employer and the input is valid; a job seeker's or an admin's call fails
\* with Forbidden (403) and inserts neither a JobPosting nor a Location; the
\* employer of every stored JobPosting has role employer.
C11_OnlyEmployersCreate ==
    [][/\ (last'.req.op = "create" /\ RoleOf(last'.req.user) # "employer") =>
             /\ last'.code = 403
             /\ jobs' = jobs
             /\ locations' = locations
       /\ (last'.req.op = "create" /\ RoleOf(last'.req.user) = "employer") =>
             (last'.code = 201 <=> AllLocFields(last'.req.loc))
       /\ \A j \in DOMAIN jobs' : RoleOf(jobs'[j].employer) = "employer"
    ]_vars

\* An admin has tried to create a posting.
C11_Witness ==
    /\ LastOp("create")
    /\ RoleOf(last.req.user) = "admin"
    /\ last.code = 403

\* C12: every posting a successful creation produces has the calling actor
\* as employer and is_active = true, whatever the request supplied.
C12_CreatedActiveByActor ==
    (LastOp("create") /\ last.code = 201) =>
        \A row \in last.data : row.employer = last.req.user /\ row.is_active

C14_InactiveHiddenAsNotFound ==
    (LastOp("get") /\ JobExists(last.req.id) /\ ~jobs[last.req.id].is_active) =>
        IF \/ RoleOf(last.req.user) = "admin"
           \/ jobs[last.req.id].employer = last.req.user
        THEN last.code = 200 /\ last.data = {JobObj(last.req.id)}
        ELSE last.code = 404 /\ last.data = {}

LastGetOfActive ==
    /\ LastOp("get")
    /\ JobExists(last.req.id)
    /\ jobs[last.req.id].is_active

LastListOfActive ==
    /\ LastOp("list")
    /\ RoleOf(last.req.user) \in {"job_seeker", "admin"}
    /\ last.code = 200

\* A cached row whose posting is no longer stored or no longer active.
StaleRow(row) == ~JobExists(row.id) \/ ~jobs[row.id].is_active

C17_EmployerListsOwnPostings ==
    [][(last'.req.op = "list" /\ RoleOf(last'.req.user) = "employer") =>
          /\ last'.code = 200
          /\ \A j \in DOMAIN jobs' :
                jobs'[j].employer = last'.req.user <=>
                    [id |-> j, employer |-> jobs'[j].employer,
                     is_active |-> jobs'[j].is_active,
                     location |-> jobs'[j].location] \in last'.data
          /\ \A row \in last'.data :
                row.id \in DOMAIN jobs' /\ jobs'[row.id].employer = last'.req.user
          /\ cache' = cache
          /\ pc' = pc
    ]_vars

\* An employer who owns an inactive posting has listed, with a filled cache
\* and another employer's posting in the store, and has been shown the
\* inactive posting.
C17_Witness ==
    /\ LastOp("list")
    /\ RoleOf(last.req.user) = "employer"
    /\ cache.present
    /\ \E row \in last.data : ~row.is_active
    /\ \E j \in DOMAIN jobs : jobs[j].employer # last.req.user

\* The posting's creation has completed: its row is stored and no worker is
\* still between the INSERT and the response of the creation.
CreateCompleted(id) ==
    /\ JobExists(id)
    /\ ~ \E w \in Workers : pc[w] = "jcreate_inval" /\ inst[w].obj.id = id

CacheFresh == ~cache.present \/ cache.rows = JobList_ActiveQueryset

\* C19: after every completed write that changes the set of active postings
\* (a creation, an update that changes is_active, a deletion) the cache entry
\* is absent or equal to the store's active postings.
C19_NoStaleEntryAfterWrite ==
    (\/ LastOp("create") /\ last.code = 201
     \/ LastOp("update") /\ last.code = 200
           /\ \E row \in last.data : row.is_active # last.obj.is_active
     \/ LastOp("delete") /\ last.code = 204) => CacheFresh

LocPartial(l) == AnyLocField(l) /\ ~AllLocFields(l)

\* C20: a creation by an employer with one of the three location fields
\* missing fails with ValidationError (400) and inserts neither a JobPosting
\* nor a Location; an update by the owner that supplies one or two of the
\* three fails with ValidationError (400) and leaves postings and locations
\* as they are.
C20_PartialLocationRejected ==
    [][/\ (/\ last'.req.op = "create"
           /\ RoleOf(last'.req.user) = "employer"
           /\ ~AllLocFields(last'.req.loc)) =>
             (last'.code = 400 /\ jobs' = jobs /\ locations' = locations)
       /\ (/\ last'.req.op = "update"
           /\ last'.obj # NoJob
           /\ LocPartial(last'.req.loc)) =>
             (last'.code = 400 /\ jobs' = jobs /\ locations' = locations)
    ]_vars

\* The owner's update with one or two location fields has been refused.
C20_Witness ==
    /\ LastOp("update")
    /\ last.obj # NoJob
    /\ LocPartial(last.req.loc)
    /\ last.code = 400

\* The Location rows with the triple of a body.
WithTriple(l) ==
    {x \in locations :
        x.country = l.country /\ x.city = l.city /\ x.address = l.address}

\* C21: no two Location rows have the same (country, city, address) triple,
\* under every interleaving of creations and updates; no Location row is
\* ever removed; and a creation or update that supplied a triple has made
\* the posting reference the one Location with that triple.
C21_LocationsUnique ==
    /\ \A x, y \in locations :
          (x.country = y.country /\ x.city = y.city /\ x.address = y.address)
              => x.id = y.id
    /\ Cardinality(locations) = nextLocId
    /\ ((LastOp("create") /\ last.code = 201)
          \/ (LastOp("update") /\ last.code = 200 /\ AllLocFields(last.req.loc))) =>
          \A row \in last.data :
              WithTriple(last.req.loc) = {x \in locations : x.id = row.location}

\* A creation or update has been answered whose triple was already stored:
\* its posting shares the Location with another posting.
C21_Witness ==
    /\ LastOp("create") \/ LastOp("update")
    /\ last.code \in {200, 201}
    /\ AllLocFields(last.req.loc)
    /\ \E row \in last.data :
          \E j \in DOMAIN jobs : j # row.id /\ jobs[j].location = row.location

\* C22: a successful deletion removes the posting and exactly the
\* applications that reference it, and leaves the other postings, the other
\* applications and the locations as they are; no application ever
\* references a posting that is not stored.
C22_DeleteCascades ==
    [][/\ (last'.req.op = "delete" /\ last'.code = 204) =>
             /\ DOMAIN jobs' = (DOMAIN jobs) \ {last'.req.id}
             /\ \A j \in DOMAIN jobs' : jobs'[j] = jobs[j]
             /\ applications' = {a \in applications : a.job # last'.req.id}
             /\ locations' = locations
       /\ \A a \in applications' : a.job \in DOMAIN jobs'
    ]_vars

\* The posting j1 has been deleted with its application; the application to
\* the other posting is still stored.
C22_Witness ==
    /\ LastOp("delete")
    /\ last.code = 204
    /\ ~JobExists(last.req.id)
    /\ applications # {}
    /\ \A a \in applications : a.job # last.req.id

(***************************************************************************)
(***************************************************************************)
(* Third part: identity and roles (specification AuthSpec).                *)
(* authentication/models.py, authentication/serializers.py,                *)
(* authentication/views.py, authentication/tasks.py.                       *)
(***************************************************************************)
(***************************************************************************)

\* Number of requests to the identity endpoints in a behaviour of AuthSpec.
MaxAuthRequests == 3

\* User.ROLE_CHOICES.
ROLE_CHOICES == {"admin", "job_seeker", "employer"}

\* The default of RegisterSerializer.role.
RoleDefault == "job_seeker"

\* The role values register is called with: absent, two valid ones, and
\* 'user', the default of the model field, which is not among the choices.
RoleInputs == {None, "employer", "admin", "user"}

\* The e-mail addresses register is called with: a registered one, the same
\* address with its domain in capitals, and a new one.
RegisterEmails == {"s@x", "s@X", "n@x"}

\* The e-mail values a password reset is requested for; "zz" is no address.
ResetEmails == {"s@x", "n@x", "zz"}

\* serializers.EmailField: the value has the form of an address.
EmailField_valid(e) == e # "zz"

\* BaseUserManager.normalize_email: the domain part in lower case.
normalize_email(e) == IF e = "s@X" THEN "s@x" ELSE e

\* Passwords: every seeded and registered account starts with p0.
PasswordInitial == "p0"

NewPasswords == {"p1", "p2"}

\* uuid4 values, in the order they are drawn; vt0 and rt0 are well-formed
\* values that were never issued.
UserIdSeq == <<"u1", "u2", "u3", "u4", "u5", "u6", "u7", "u8">>

VTokenSeq == <<"vt1", "vt2", "vt3", "vt4", "vt5", "vt6", "vt7", "vt8">>

RTokenSeq == <<"rt1", "rt2", "rt3", "rt4", "rt5", "rt6", "rt7", "rt8">>

VTokensIssued == {VTokenSeq[i] : i \in 1..authSeq.vtoken}

RTokensIssued == {RTokenSeq[i] : i \in 1..authSeq.rtoken}

VerifyInputs == VTokensIssued \cup {"vt0"}

ConfirmInputs == RTokensIssued \cup {"rt0"}

\* A row of authentication.User.
UserRow(role, email, verified, password) ==
    [role |-> role, email |-> email, is_email_verified |-> verified,
     password |-> password]

NoUserRow == UserRow(None, None, FALSE, None)

NoAuthReq == [op |-> None, user |-> None, email |-> None, role |-> None,
              token |-> None, new_password |-> None, user_fields |-> FALSE]

NoAuthInst == [user |-> None, row |-> NoUserRow]

NoAuthLast == [req |-> NoAuthReq, code |-> 0, error |-> None, msg |-> None,
               user |-> None, issued |-> None, sent |-> 0]

\* User.objects.filter(email=e): an exact match on the stored value.
UserByEmail(e) == {u \in DOMAIN users : users[u].email = e}

\* The profile rows of a user.
ProfilesOf(kind, u) == {p \in profiles : p.kind = kind /\ p.user = u}

\* OneToOneField(User): the unique index on the user column of a profile table.
ProfileExists(kind, u) == ProfilesOf(kind, u) # {}

\* <Profile>.objects.create(user=u): the table after the INSERT.
Profile_create(kind, u) ==
    profiles \cup {[id |-> authSeq.profile + 1, kind |-> kind, user |-> u]}

\* <Profile>.objects.get_or_create(user=u): the table after the call.
Profile_get_or_create(kind, u) ==
    IF ProfileExists(kind, u) THEN profiles ELSE Profile_create(kind, u)

\* The kind as it would be if every role got a JobSeekerProfile.
RegisterSerializer_profile_kind_SeekerForAll(role) == "job_seeker"

\* The profile kind RegisterSerializer.create inserts for a role, None for
\* a role without profile.
RegisterSerializer_profile_kind(role) ==
    IF role = "job_seeker" THEN "job_seeker"
    ELSE IF role = "employer" THEN "employer"
    ELSE None

\* The profile kind UserProfileView.get_object serves for a role, None for
\* the roles answered with Http404.
UserProfileView_profile_kind(role) ==
    IF role = "job_seeker" THEN "job_seeker"
    ELSE IF role = "employer" THEN "employer"
    ELSE None

\* RegisterSerializer.is_valid as it would be with role declared as a
\* CharField: any role value passes.
RegisterSerializer_is_valid_AnyRole(r) ==
    IF UserByEmail(r.email) # {} THEN "unique" ELSE None

\* RegisterSerializer.is_valid: the ChoiceField of role and the
\* UniqueValidator that ModelSerializer derives from User.email; None when
\* the data is valid, else the first error.
RegisterSerializer_is_valid(r) ==
    IF r.role \notin ROLE_CHOICES \cup {None} THEN "invalid_choice"
    ELSE IF UserByEmail(r.email) # {} THEN "unique"
    ELSE None

\* The role in validated_data.
ValidatedRole(r) == IF r.role = None THEN RoleDefault ELSE r.role

\* The Celery tasks of authentication/tasks.py, as queued messages.
MailTask(name, to, token) == [task |-> name, to |-> to, token |-> token]

\* The rows of a token table with a token value.
VTokenRows(t) == {x \in vtokens : x.token = t}

RTokenRows(t) == {x \in rtokens : x.token = t}

\* VerificationToken.delete(): the table after the DELETE.
VerificationToken_delete(t) == {x \in vtokens : x.token # t}

\* The table as it would be if the confirmed token were kept.
PasswordResetToken_delete_Keep(t) == rtokens

\* PasswordResetToken.delete(): the table after the DELETE; deleting a row
\* that is already gone deletes nothing and raises nothing.
PasswordResetToken_delete(t) == {x \in rtokens : x.token # t}

(***************************************************************************)
(* Request bookkeeping of the identity endpoints.                          *)
(***************************************************************************)
AuthBegin(w) ==
    /\ FirstIdle(w)
    /\ nreq < MaxAuthRequests
    /\ nreq' = nreq + 1

\* The worker answers.  user is the account the request created or acted
\* on, issued the token it created, sent the number of tasks it queued.
AuthRespond(w, r, code, error, msg, user, issued, sent) ==
    /\ last' = [req |-> r, code |-> code, error |-> error, msg |-> msg,
                user |-> user, issued |-> issued, sent |-> sent]
    /\ pc' = [pc EXCEPT ![w] = "idle"]
    /\ req' = [req EXCEPT ![w] = NoAuthReq]
    /\ inst' = [inst EXCEPT ![w] = NoAuthInst]
    /\ UNCHANGED boardStore

AuthGoto(w, label, r, i) ==
    /\ last' = NoAuthLast
    /\ pc' = [pc EXCEPT ![w] = label]
    /\ req' = [req EXCEPT ![w] = r]
    /\ inst' = [inst EXCEPT ![w] = i]
    /\ UNCHANGED boardStore

(***************************************************************************)
(* Initial state of the identity part: a job seeker s@x who has not        *)
(* verified the address yet and has requested a password reset, an         *)
(* employer who has verified (the token vt2 is consumed), and an admin     *)
(* made with create_superuser.                                             *)
(***************************************************************************)
AuthInit ==
    /\ users = ("u1" :> UserRow("job_seeker", "s@x", FALSE, PasswordInitial))
            @@ ("u2" :> UserRow("employer", "e@x", TRUE, PasswordInitial))
            @@ ("u3" :> UserRow("admin", "a@x", FALSE, PasswordInitial))
    /\ profiles = {[id |-> 1, kind |-> "job_seeker", user |-> "u1"],
                   [id |-> 2, kind |-> "employer", user |-> "u2"]}
    /\ vtokens = {[token |-> "vt1", user |-> "u1"]}
    /\ rtokens = {[token |-> "rt1", user |-> "u1", expires_at |-> None]}
    /\ authSeq = [user |-> 3, profile |-> 2, vtoken |-> 2, rtoken |-> 1]
    /\ outbox = EmptyBag
    /\ jobs = <<>>
    /\ applications = {}
    /\ nextAppId = 1
    /\ locations = {}
    /\ cache = NoCache
    /\ nextJobId = 0
    /\ nextLocId = 0
    /\ pc = [w \in Workers |-> "idle"]
    /\ req = [w \in Workers |-> NoAuthReq]
    /\ inst = [w \in Workers |-> NoAuthInst]
    /\ last = NoAuthLast
    /\ nreq = 0

(***************************************************************************)
(* POST /api/auth/register/: RegisterView.create                           *)
(***************************************************************************)
\* serializer.is_valid(raise_exception=True).
RegisterStart(w) ==
    /\ AuthBegin(w)
    /\ \E e \in RegisterEmails, role \in RoleInputs :
          LET r == [NoAuthReq EXCEPT !.op = "register", !.email = e, !.role = role]
              err == RegisterSerializer_is_valid(r)
          IN  IF err # None
              THEN AuthRespond(w, r, 400, err, None, None, None, 0)
              ELSE AuthGoto(w, "reg_user", r, NoAuthInst)
    /\ UNCHANGED <<users, authStore, outbox>>

\* User.objects.create_user: normalize_email, set_password, the INSERT; the
\* unique index on email raises IntegrityError, which nothing catches.
RegisterUser(w) ==
    /\ pc[w] = "reg_user"
    /\ LET r == req[w]
           e == normalize_email(r.email)
           u == UserIdSeq[authSeq.user + 1]
       IN  IF UserByEmail(e) # {}
           THEN /\ UNCHANGED <<users, authSeq>>
                /\ AuthRespond(w, r, StatusOfError("IntegrityError"), "IntegrityError",
                               None, None, None, 0)
           ELSE /\ users' = users @@ (u :> UserRow(ValidatedRole(r), e, FALSE,
                                                   PasswordInitial))
                /\ authSeq' = [authSeq EXCEPT !.user = @ + 1]
                /\ AuthGoto(w, "reg_profile", r, [NoAuthInst EXCEPT !.user = u])
    /\ UNCHANGED <<profiles, vtokens, rtokens, outbox, nreq>>

\* The profile row matching user.role.
RegisterProfile(w) ==
    /\ pc[w] = "reg_profile"
    /\ LET r == req[w]
           u == inst[w].user
           kind == RegisterSerializer_profile_kind(ValidatedRole(r))
       IN  IF kind = None
           THEN /\ UNCHANGED <<profiles, authSeq>>
                /\ AuthGoto(w, "reg_token", r, inst[w])
           ELSE IF ProfileExists(kind, u)
           THEN /\ UNCHANGED <<profiles, authSeq>>
                /\ AuthRespond(w, r, StatusOfError("IntegrityError"), "IntegrityError",
                               None, u, None, 0)
           ELSE /\ profiles' = Profile_create(kind, u)
                /\ authSeq' = [authSeq EXCEPT !.profile = @ + 1]
                /\ AuthGoto(w, "reg_token", r, inst[w])
    /\ UNCHANGED <<users, vtokens, rtokens, outbox, nreq>>

\* VerificationToken.objects.create, send_verification_email.delay, and
\* the rest of RegisterView.create: the profile lookup by role and the 201.
RegisterToken(w) ==
    /\ pc[w] = "reg_token"
    /\ LET r == req[w]
           u == inst[w].user
           t == VTokenSeq[authSeq.vtoken + 1]
       IN  /\ vtokens' = vtokens \cup {[token |-> t, user |-> u]}
           /\ authSeq' = [authSeq EXCEPT !.vtoken = @ + 1]
           /\ \E broker_up \in BOOLEAN :
                 IF ~broker_up
                 THEN /\ UNCHANGED outbox
                      /\ AuthRespond(w, r, StatusOfError("BrokerError"), "BrokerError",
                                     None, u, t, 0)
                 ELSE /\ outbox' = Delay(MailTask("send_verification_email", u, t))
                      /\ IF ValidatedRole(r) \in ROLE_CHOICES
                         THEN AuthRespond(w, r, 201, None, None, u, t, 1)
                         ELSE AuthRespond(w, r, StatusOfError("ValueError"), "ValueError",
                                          None, u, t, 1)
    /\ UNCHANGED <<users, profiles, rtokens, nreq>>

(***************************************************************************)
(* GET, PUT, PATCH /api/auth/profile/: UserProfileView                     *)
(***************************************************************************)
ProfileGet(w) ==
    /\ AuthBegin(w)
    /\ \E u \in DOMAIN users :
          LET r == [NoAuthReq EXCEPT !.op = "profile_get", !.user = u]
              kind == UserProfileView_profile_kind(users[u].role)
          IN  IF kind = None
              THEN /\ UNCHANGED <<profiles, authSeq>>
                   /\ AuthRespond(w, r, 404, "Http404", None, u, None, 0)
              ELSE /\ profiles' = Profile_get_or_create(kind, u)
                   /\ authSeq' = IF ProfileExists(kind, u) THEN authSeq
                                 ELSE [authSeq EXCEPT !.profile = @ + 1]
                   /\ AuthRespond(w, r, 200, None, None, u, None, 0)
    /\ UNCHANGED <<users, vtokens, rtokens, outbox>>

\* UserProfileView.update up to the serializer's update: get_object and the
\* user row that instance.user holds.
ProfileUpdateStart(w) ==
    /\ AuthBegin(w)
    /\ \E u \in DOMAIN users, f \in BOOLEAN :
          LET r == [NoAuthReq EXCEPT !.op = "profile_update", !.user = u,
                                     !.user_fields = f]
              kind == UserProfileView_profile_kind(users[u].role)
          IN  IF kind = None
              THEN /\ UNCHANGED <<profiles, authSeq>>
                   /\ AuthRespond(w, r, 404, "Http404", None, u, None, 0)
              ELSE /\ profiles' = Profile_get_or_create(kind, u)
                   /\ authSeq' = IF ProfileExists(kind, u) THEN authSeq
                                 ELSE [authSeq EXCEPT !.profile = @ + 1]
                   /\ AuthGoto(w, "profile_save", r,
                               [NoAuthInst EXCEPT !.user = u, !.row = users[u]])
    /\ UNCHANGED <<users, vtokens, rtokens, outbox>>

\* <Profile>Serializer.update: user.save() when the request supplied a user
\* field (first_name, last_name, phone_number), then the profile's save.
\* Model.save() writes every column of the row from the loaded object.
ProfileUpdateSave(w) ==
    /\ pc[w] = "profile_save"
    /\ LET r == req[w]
           u == inst[w].user
       IN  /\ users' = IF r.user_fields THEN [users EXCEPT ![u] = inst[w].row]
                       ELSE users
           /\ AuthRespond(w, r, 200, None, None, u, None, 0)
    /\ UNCHANGED <<authStore, outbox, nreq>>

(***************************************************************************)
(* GET /api/auth/verify-email/?token=: VerifyEmailView.get                 *)
(***************************************************************************)
\* The lookup of the token and of its user, and the test of the flag.
VerifyStart(w) ==
    /\ AuthBegin(w)
    /\ \E t \in VerifyInputs :
          LET r == [NoAuthReq EXCEPT !.op = "verify", !.token = t]
          IN  IF VTokenRows(t) = {}
              THEN AuthRespond(w, r, 400, "DoesNotExist", "Invalid or expired token",
                               None, None, 0)
              ELSE LET u == (CHOOSE x \in VTokenRows(t) : TRUE).user
                   IN  IF users[u].is_email_verified
                       THEN AuthRespond(w, r, 200, None, "Email already verified",
                                        u, None, 0)
                       ELSE AuthGoto(w, "verify_save", r,
                                     [NoAuthInst EXCEPT !.user = u, !.row = users[u]])
    /\ UNCHANGED <<users, authStore, outbox>>

\* user.is_email_verified = True; user.save().
VerifySave(w) ==
    /\ pc[w] = "verify_save"
    /\ users' = [users EXCEPT ![inst[w].user] =
                    [inst[w].row EXCEPT !.is_email_verified = TRUE]]
    /\ AuthGoto(w, "verify_delete", req[w], inst[w])
    /\ UNCHANGED <<authStore, outbox, nreq>>

\* verification_token.delete() and the 200.
VerifyDelete(w) ==
    /\ pc[w] = "verify_delete"
    /\ vtokens' = VerificationToken_delete(req[w].token)
    /\ AuthRespond(w, req[w], 200, None, "Email verified successfully",
                   inst[w].user, None, 0)
    /\ UNCHANGED <<users, profiles, rtokens, authSeq, outbox, nreq>>

(***************************************************************************)
(* POST /api/auth/password-reset/request/: PasswordResetRequestView.post   *)
(***************************************************************************)
ResetRequestStart(w) ==
    /\ AuthBegin(w)
    /\ \E e \in ResetEmails :
          LET r == [NoAuthReq EXCEPT !.op = "reset_request", !.email = e]
          IN  IF ~EmailField_valid(e)
              THEN AuthRespond(w, r, 400, "invalid", None, None, None, 0)
              ELSE IF UserByEmail(e) = {}
              THEN AuthRespond(w, r, 200, None, "Password reset email sent",
                               None, None, 0)
              ELSE AuthGoto(w, "reset_issue", r,
                            [NoAuthInst EXCEPT !.user = CHOOSE u \in UserByEmail(e) : TRUE])
    /\ UNCHANGED <<users, authStore, outbox>>

\* PasswordResetToken.objects.create(user=user), which leaves expires_at
\* NULL, and send_password_reset_email.delay.
ResetRequestIssue(w) ==
    /\ pc[w] = "reset_issue"
    /\ LET r == req[w]
           u == inst[w].user
           t == RTokenSeq[authSeq.rtoken + 1]
       IN  /\ rtokens' = rtokens \cup {[token |-> t, user |-> u, expires_at |-> None]}
           /\ authSeq' = [authSeq EXCEPT !.rtoken = @ + 1]
           /\ \E broker_up \in BOOLEAN :
                 IF ~broker_up
                 THEN /\ UNCHANGED outbox
                      /\ AuthRespond(w, r, StatusOfError("BrokerError"), "BrokerError",
                                     None, u, t, 0)
                 ELSE /\ outbox' = Delay(MailTask("send_password_reset_email", u, t))
                      /\ AuthRespond(w, r, 200, None, "Password reset email sent",
                                     u, t, 1)
    /\ UNCHANGED <<users, profiles, vtokens, nreq>>

(***************************************************************************)
(* POST /api/auth/password-reset/confirm/: PasswordResetConfirmView.post   *)
(***************************************************************************)
\* The lookup of the token and of its user.
ConfirmStart(w) ==
    /\ AuthBegin(w)
    /\ \E t \in ConfirmInputs, p \in NewPasswords :
          LET r == [NoAuthReq EXCEPT !.op = "reset_confirm", !.token = t,
                                     !.new_password = p]
          IN  IF RTokenRows(t) = {}
              THEN AuthRespond(w, r, 400, "DoesNotExist", "Invalid or expired token",
                               None, None, 0)
              ELSE LET u == (CHOOSE x \in RTokenRows(t) : TRUE).user
                   IN  AuthGoto(w, "confirm_save", r,
                                [NoAuthInst EXCEPT !.user = u, !.row = users[u]])
    /\ UNCHANGED <<users, authStore, outbox>>

\* user.set_password(new_password); user.save().
ConfirmSave(w) ==
    /\ pc[w] = "confirm_save"
    /\ users' = [users EXCEPT ![inst[w].user] =
                    [inst[w].row EXCEPT !.password = req[w].new_password]]
    /\ AuthGoto(w, "confirm_delete", req[w], inst[w])
    /\ UNCHANGED <<authStore, outbox, nreq>>

\* reset_token.delete() and the 200.
ConfirmDelete(w) ==
    /\ pc[w] = "confirm_delete"
    /\ rtokens' = PasswordResetToken_delete(req[w].token)
    /\ AuthRespond(w, req[w], 200, None, "Password reset successfully",
                   inst[w].user, None, 0)
    /\ UNCHANGED <<users, profiles, vtokens, authSeq, outbox, nreq>>

AuthNext ==
    \/ \E w \in Workers : RegisterStart(w)
    \/ \E w \in Workers : RegisterUser(w)
    \/ \E w \in Workers : RegisterProfile(w)
    \/ \E w \in Workers : RegisterToken(w)
    \/ \E w \in Workers : ProfileGet(w)
    \/ \E w \in Workers : ProfileUpdateStart(w)
    \/ \E w \in Workers : ProfileUpdateSave(w)
    \/ \E w \in Workers : VerifyStart(w)
    \/ \E w \in Workers : VerifySave(w)
    \/ \E w \in Workers : VerifyDelete(w)
    \/ \E w \in Workers : ResetRequestStart(w)
    \/ \E w \in Workers : ResetRequestIssue(w)
    \/ \E w \in Workers : ConfirmStart(w)
    \/ \E w \in Workers : ConfirmSave(w)
    \/ \E w \in Workers : ConfirmDelete(w)

AuthSpec == AuthInit /\ [][AuthNext]_vars

(***************************************************************************)
(* Properties of the identity part.                                        *)
(***************************************************************************)
\* C23: each user's role is one of admin, employer, job_seeker; a register
\* call with any other role value is answered 400 (ValidationError) in a
\* step that creates no user, no profile and no token and queues no task;
\* and no step changes the role of an existing user.
C23_RolesValid ==
    [][/\ \A u \in DOMAIN users' : users'[u].role \in ROLE_CHOICES
       /\ \A u \in DOMAIN users : u \in DOMAIN users' /\ users'[u].role = users[u].role
       /\ (last'.req.op = "register" /\ last'.req.role \notin ROLE_CHOICES \cup {None}) =>
             /\ last'.code = 400
             /\ last'.user = None
             /\ UNCHANGED <<users, profiles, vtokens, rtokens, authSeq, outbox>>
    ]_vars

\* A register call with the role 'user' has been answered 400.
C23_Witness ==
    /\ LastOp("register")
    /\ last.req.role = "user"
    /\ last.code = 400
    /\ last.error = "invalid_choice"

\* C24: a register call with an e-mail address that is already registered
\* fails with Conflict (409) and creates no user; no two users share an
\* e-mail address.
C24_DuplicateEmailIsConflict ==
    /\ \A u, v \in DOMAIN users : users[u].email = users[v].email => u = v
    /\ (LastOp("register") /\ last.error \in {"unique", "IntegrityError"}
          /\ last.user = None) =>
          last.code = 409

\* The profile rows a user of a given role must have: one of the role's
\* kind for job_seeker and employer, none of the other kind, none for admin.
ProfilesMatchRole(u) ==
    /\ Cardinality(ProfilesOf("job_seeker", u)) =
          IF users[u].role = "job_seeker" THEN 1 ELSE 0
    /\ Cardinality(ProfilesOf("employer", u)) =
          IF users[u].role = "employer" THEN 1 ELSE 0

\* The user a register call has inserted and not yet given a profile.
BeingRegistered(u) ==
    \E w \in Workers : pc[w] = "reg_profile" /\ inst[w].user = u

\* C25: every user whose registration is not between its two inserts has
\* the profile rows of the role: exactly one JobSeekerProfile and no
\* EmployerProfile for a job_seeker, exactly one EmployerProfile and no
\* JobSeekerProfile for an employer, none for an admin; no user, in flight
\* or not, has both kinds or two rows of a kind; every profile row belongs
\* to a user.
C25_ProfileMatchesRole ==
    /\ \A u \in DOMAIN users : ~BeingRegistered(u) => ProfilesMatchRole(u)
    /\ \A u \in DOMAIN users :
          Cardinality(ProfilesOf("job_seeker", u))
             + Cardinality(ProfilesOf("employer", u)) <= 1
    /\ \A p \in profiles : p.user \in DOMAIN users

\* A register call for a new employer has been answered 201 and the account
\* has its EmployerProfile.
C25_Witness ==
    /\ LastOp("register")
    /\ last.code = 201
    /\ users[last.user].role = "employer"
    /\ ProfilesOf("employer", last.user) # {}

\* The step begins a verifyEmail call with the token t.
VerifyBegins(t) ==
    /\ nreq' # nreq
    /\ \/ last'.req.op = "verify" /\ last'.req.token = t
       \/ \E w \in Workers : pc'[w] = "verify_save" /\ req'[w].token = t

\* C26: verifyEmail is idempotent: a call that begins right after a
\* successful call with the same token is answered 200 and changes neither
\* a user nor a token; and no step takes is_email_verified from true back
\* to false.
C26_VerifyIdempotent ==
    [][/\ (LastOp("verify") /\ last.code = 200 /\ VerifyBegins(last.req.token)) =>
             (last'.code = 200 /\ UNCHANGED <<users, vtokens>>)
       /\ \A u \in DOMAIN users :
             users[u].is_email_verified => users'[u].is_email_verified
    ]_vars

\* C27: a password reset request for a well-formed address is answered 200
\* with the same message whether or not the address is registered; it
\* creates a token and queues a password_reset task if and only if an
\* account with the address exists.
C27_SameOutcome ==
    (LastOp("reset_request") /\ EmailField_valid(last.req.email)) =>
        /\ last.code = 200
        /\ last.msg = "Password reset email sent"
        /\ (last.issued # None) <=> (UserByEmail(last.req.email) # {})
        /\ (last.sent = 1) <=> (UserByEmail(last.req.email) # {})

\* C28: a confirmPasswordReset whose token is not stored when it is looked
\* up (never issued, or consumed) is answered 400 by the lookup step, which
\* changes no user and no token, and a confirmation fails in no other way;
\* a confirmation passes the lookup only with a stored token; its save
\* changes the password, and only the row, of the token's user; its answer
\* is 200 and leaves the token deleted; a token that is gone never comes
\* back, so a confirmation that looks it up later fails.
C28_ConfirmConsumesToken ==
    [][/\ (nreq' # nreq /\ last'.req.op = "reset_confirm") =>
             /\ RTokenRows(last'.req.token) = {}
             /\ last'.code = 400
             /\ last'.msg = "Invalid or expired token"
             /\ UNCHANGED <<users, rtokens>>
       /\ (last'.req.op = "reset_confirm" /\ last'.code # 200) =>
             /\ nreq' # nreq
             /\ last'.code = 400
       /\ \A w \in Workers :
             (pc[w] = "idle" /\ pc'[w] = "confirm_save") =>
                /\ RTokenRows(req'[w].token) # {}
                /\ \A x \in RTokenRows(req'[w].token) : x.user = inst'[w].user
       /\ \A w \in Workers :
             (pc[w] = "confirm_save" /\ pc'[w] = "confirm_delete") =>
                /\ users'[inst[w].user].password = req[w].new_password
                /\ \A u \in DOMAIN users : u # inst[w].user => users'[u] = users[u]
       /\ (last'.req.op = "reset_confirm" /\ last'.code = 200) =>
             \A x \in rtokens' : x.token # last'.req.token
       /\ \A t \in RTokensIssued : RTokenRows(t) = {} => RTokenRows(t)' = {}
    ]_vars

\* Two confirmations with the token rt1, one after the other: the first was
\* answered 200, the second 400.
C28_Witness ==
    /\ LastOp("reset_confirm")
    /\ last.code = 400
    /\ last.req.token = "rt1"
    /\ users["u1"].password \in NewPasswords

\* C30: a password-reset token changes a password at most once: when a
\* confirmation with a token has been answered 200, no other confirmation
\* with the same token has set the password too.
C30_TokenUsedOnce ==
    (LastOp("reset_confirm") /\ last.code = 200) =>
        ~\E w \in Workers :
            pc[w] = "confirm_delete" /\ req[w].token = last.req.token

====
